---- MODULE Spec2Model ----
(***************************************************************************)
(* Model of SimpleCalendarApplication.py: the Calendar event store         *)
(* (add_event, get_events_for_day, get_remaining_events_for_day,           *)
(* find_next_available_slot) driven by an arbitrary caller.                *)
(*                                                                         *)
(* Time.  A datetime is an integer number of clock ticks since 00:00 of    *)
(* day 0; a timedelta is an integer number of ticks.  Python's clock has   *)
(* a resolution of one microsecond; the model's clock has a resolution of  *)
(* one tick, TicksPerHalfHour ticks to the half hour.  datetime.min.time() *)
(* is the first tick of a day and datetime.max.time() the last one.        *)
(***************************************************************************)
EXTENDS Integers, Sequences, FiniteSets, TLC

VARIABLES events, last

vars == <<events, last>>

(***************************************************************************)
(* Bounds of the model.                                                    *)
(***************************************************************************)
TicksPerHalfHour == 1

MaxDay == 1

MaxEvents == 2

TicksPerDay == 48 * TicksPerHalfHour

Days == 0..MaxDay

Titles == {"a"}

\* HH:MM as a time of day in ticks (mm is 0 or 30).
Clock(hh, mm) == (2 * hh + mm \div 30) * TicksPerHalfHour

Minutes(n) == (n \div 30) * TicksPerHalfHour

\* Times of day the caller uses: 00:00, the next tick, and the last tick of the
\* day.
ClockTimes == {0, 1, TicksPerDay - 1}

Instants == {d * TicksPerDay + c : d \in Days, c \in ClockTimes}

\* end_time - start_time of the events the caller offers: not after the start,
\* one tick, two ticks (from the last tick of a day, past midnight).
Lengths == -1..2

\* Durations asked of the slot search: non-positive ones, 30 and 90 minutes,
\* 20 hours, and the ones around a whole day.
Durations == {-1, 0, Minutes(30), Minutes(90), Minutes(1200),
              TicksPerDay - 2, TicksPerDay - 1, TicksPerDay}

\* What datetime.now() returns during a call: the second and third tick of a day.
Nows == {d * TicksPerDay + c : d \in Days, c \in 1..2}

(***************************************************************************)
(* datetime helpers                                                        *)
(***************************************************************************)
date(t) == t \div TicksPerDay

min_time == 0

max_time == TicksPerDay - 1

combine(day, time) == day * TicksPerDay + time

None == <<>>

Some(t) == <<t>>

(***************************************************************************)
(* class Event                                                             *)
(***************************************************************************)
Event(title, start_time, end_time) ==
    [title |-> title, start_time |-> start_time, end_time |-> end_time]

overlaps_withOneSided(self, other) ==
    self.start_time < other.start_time /\ self.end_time > other.start_time

overlaps_withClosed(self, other) ==
    self.start_time <= other.end_time /\ self.end_time >= other.start_time

overlaps_with(self, other) ==
    self.start_time < other.end_time /\ self.end_time > other.start_time

(***************************************************************************)
(* list.sort(key=lambda x: x.start_time): a stable sort by start_time.     *)
(***************************************************************************)
\* s is sorted; e goes after every element whose key is <= its own.
InsertByStart(s, e) ==
    LET k == Cardinality({i \in 1..Len(s) : s[i].start_time <= e.start_time})
    IN  SubSeq(s, 1, k) \o <<e>> \o SubSeq(s, k + 1, Len(s))

RECURSIVE SortByStart(_)
SortByStart(s) ==
    IF s = <<>> THEN <<>>
    ELSE InsertByStart(SortByStart(SubSeq(s, 1, Len(s) - 1)), s[Len(s)])

NoSort(s) == s

sort(s) == SortByStart(s)

(***************************************************************************)
(* class Calendar.  self.events is a dict: a function whose domain is the  *)
(* set of day keys.                                                        *)
(***************************************************************************)
\* self.events.get(day, [])
get(ev, day) == IF day \in DOMAIN ev THEN ev[day] ELSE <<>>

get_events_for_day(ev, day) == get(ev, day)

\* The dict after "if event_date not in self.events: self.events[event_date] = []".
setdefault(ev, day) == IF day \in DOMAIN ev THEN ev ELSE ev @@ (day :> <<>>)

add_eventNoIntervalCheck(ev, title, start_time, end_time) ==
    LET new_event  == Event(title, start_time, end_time)
        event_date == date(start_time)
        ev1        == setdefault(ev, event_date)
    IN  IF \E i \in 1..Len(ev1[event_date]) :
                overlaps_with(ev1[event_date][i], new_event)
        THEN [events |-> ev1, ret |-> FALSE]
        ELSE [events |-> [ev1 EXCEPT ![event_date] = sort(Append(@, new_event))],
              ret    |-> TRUE]

add_eventAppendFirst(ev, title, start_time, end_time) ==
    IF start_time >= end_time
    THEN [events |-> ev, ret |-> FALSE]
    ELSE
    LET new_event  == Event(title, start_time, end_time)
        event_date == date(start_time)
        ev1        == setdefault(ev, event_date)
        ev2        == [ev1 EXCEPT ![event_date] = Append(@, new_event)]
    IN  IF \E i \in 1..Len(ev1[event_date]) :
                overlaps_with(ev1[event_date][i], new_event)
        THEN [events |-> ev2, ret |-> FALSE]
        ELSE [events |-> [ev2 EXCEPT ![event_date] = sort(@)], ret |-> TRUE]

add_eventEndDay(ev, title, start_time, end_time) ==
    IF start_time >= end_time
    THEN [events |-> ev, ret |-> FALSE]
    ELSE
    LET new_event  == Event(title, start_time, end_time)
        event_date == date(end_time)
        ev1        == setdefault(ev, event_date)
    IN  IF \E i \in 1..Len(ev1[event_date]) :
                overlaps_with(ev1[event_date][i], new_event)
        THEN [events |-> ev1, ret |-> FALSE]
        ELSE [events |-> [ev1 EXCEPT ![event_date] = sort(Append(@, new_event))],
              ret    |-> TRUE]

add_event(ev, title, start_time, end_time) ==
    IF start_time >= end_time
    THEN [events |-> ev, ret |-> FALSE]
    ELSE
    LET new_event  == Event(title, start_time, end_time)
        event_date == date(start_time)
        ev1        == setdefault(ev, event_date)
    IN  IF \E i \in 1..Len(ev1[event_date]) :
                overlaps_with(ev1[event_date][i], new_event)
        THEN [events |-> ev1, ret |-> FALSE]
        ELSE [events |-> [ev1 EXCEPT ![event_date] = sort(Append(@, new_event))],
              ret    |-> TRUE]

get_remaining_events_for_dayInclusive(ev, day, now) ==
    IF day # date(now)
    THEN get_events_for_day(ev, day)
    ELSE SelectSeq(get(ev, day), LAMBDA e : e.end_time >= now)

get_remaining_events_for_day(ev, day, now) ==
    IF day # date(now)
    THEN get_events_for_day(ev, day)
    ELSE SelectSeq(get(ev, day), LAMBDA e : e.end_time > now)

find_next_available_slotLargest(ev, duration, day) ==
    IF day \notin DOMAIN ev \/ ev[day] = <<>>
    THEN Some(combine(day, min_time))
    ELSE
    LET es   == ev[day]
        n    == Len(es)
        gs   == [i \in 0..n |->
                   IF i = 0 THEN combine(day, min_time) ELSE es[i].end_time]
        ge   == [i \in 0..n |->
                   IF i = n THEN combine(day, max_time) ELSE es[i + 1].start_time]
        fits == {i \in 0..n : ge[i] - gs[i] >= duration}
    IN  IF fits = {} THEN None
        ELSE Some(gs[CHOOSE i \in fits :
                        \A j \in fits : /\ ge[i] - gs[i] >= ge[j] - gs[j]
                                        /\ (ge[i] - gs[i] = ge[j] - gs[j] => i <= j)])

find_next_available_slotSkipFirst(ev, duration, day) ==
    IF day \notin DOMAIN ev \/ ev[day] = <<>>
    THEN Some(combine(day, min_time))
    ELSE
    LET es    == ev[day]
        lastE == es[Len(es)]
        fits  == {i \in 1..(Len(es) - 1) :
                     es[i + 1].start_time - es[i].end_time >= duration}
    IN  IF fits # {}
        THEN Some(es[CHOOSE i \in fits : \A j \in fits : i <= j].end_time)
        ELSE IF combine(day, max_time) - lastE.end_time >= duration
        THEN Some(lastE.end_time)
        ELSE None

find_next_available_slot(ev, duration, day) ==
    IF day \notin DOMAIN ev \/ ev[day] = <<>>
    THEN Some(combine(day, min_time))
    ELSE
    LET es    == ev[day]
        first == es[1]
        lastE == es[Len(es)]
        \* the indices i of the loop "for i in range(len - 1)" at which it returns
        fits  == {i \in 1..(Len(es) - 1) :
                     es[i + 1].start_time - es[i].end_time >= duration}
    IN  IF first.start_time - combine(day, min_time) >= duration
        THEN Some(combine(day, min_time))
        ELSE IF fits # {}
        THEN Some(es[CHOOSE i \in fits : \A j \in fits : i <= j].end_time)
        ELSE IF combine(day, max_time) - lastE.end_time >= duration
        THEN Some(lastE.end_time)
        ELSE None

(***************************************************************************)
(* The caller.  last records the latest call and what it returned.         *)
(***************************************************************************)
RECURSIVE SumLen(_, _)
SumLen(ev, ds) ==
    IF ds = {} THEN 0
    ELSE LET d == CHOOSE x \in ds : TRUE IN Len(ev[d]) + SumLen(ev, ds \ {d})

TotalEvents(ev) == SumLen(ev, DOMAIN ev)

Init ==
    /\ events = <<>>
    /\ last = [op |-> "new"]

\* calendar.add_event(title, start_time, end_time)
Call_add_event(title, start_time, end_time) ==
    LET r == add_event(events, title, start_time, end_time)
    IN  /\ events' = r.events
        /\ last' = [op |-> "add_event", title |-> title, start_time |-> start_time,
                    end_time |-> end_time, ret |-> r.ret]

AddEvent ==
    \E title \in Titles, start_time \in Instants, length \in Lengths :
        /\ TotalEvents(add_event(events, title, start_time, start_time + length).events)
              <= MaxEvents
        /\ Call_add_event(title, start_time, start_time + length)

ListEvents ==
    \E day \in Days :
        /\ last' = [op |-> "get_events_for_day", day |-> day,
                    ret |-> get_events_for_day(events, day)]
        /\ UNCHANGED events

\* now is what datetime.now() returns during the call.
RemainingEvents ==
    \E day \in Days, now \in Nows :
        /\ last' = [op |-> "get_remaining_events_for_day", day |-> day, now |-> now,
                    ret |-> get_remaining_events_for_day(events, day, now)]
        /\ UNCHANGED events

FindSlot ==
    \E day \in Days, duration \in Durations :
        /\ last' = [op |-> "find_next_available_slot", day |-> day,
                    duration |-> duration,
                    ret |-> find_next_available_slot(events, duration, day)]
        /\ UNCHANGED events

Next == AddEvent \/ ListEvents \/ RemainingEvents \/ FindSlot

Spec == Init /\ [][Next]_vars

(***************************************************************************)
(* main()'s sample events, added on the day main() runs, followed by slot  *)
(* searches.                                                               *)
(***************************************************************************)
SampleEvents(today) ==
    << Event("Morning Meeting", combine(today, Clock(9, 0)), combine(today, Clock(10, 0))),
       Event("Lunch", combine(today, Clock(12, 30)), combine(today, Clock(13, 30))),
       Event("Project Review", combine(today, Clock(14, 0)), combine(today, Clock(15, 30))) >>

AddSample ==
    \E today \in Days, i \in 1..3 :
        LET e == SampleEvents(today)[i]
        IN  Call_add_event(e.title, e.start_time, e.end_time)

NextSample == AddSample \/ FindSlot

SpecSample == Init /\ [][NextSample]_vars

(***************************************************************************)
(* Properties.                                                             *)
(***************************************************************************)
Range(s) == {s[i] : i \in 1..Len(s)}

Interval(e) == <<e.start_time, e.end_time>>

\* The half-open intervals [s1, e1) and [s2, e2) overlap.
Overlap(s1, e1, s2, e2) == s1 < e2 /\ e1 > s2

\* The events stored under the date of start_time.
Bucket(ev, start_time) == get(ev, date(start_time))

\* The step is a call add_event(last'.title, last'.start_time, last'.end_time).
AddStep == last'.op = "add_event"

\* C1: in every reachable state no two distinct events stored under the same
\* day overlap: a.start >= b.end or b.start >= a.end.
C1_NoOverlap ==
    \A d \in DOMAIN events :
        \A i, j \in 1..Len(events[d]) :
            i # j => \/ events[d][i].start_time >= events[d][j].end_time
                     \/ events[d][j].start_time >= events[d][i].end_time

\* A day holds two events and the latest call offered a third one that overlaps
\* one of them.
C1_Witness ==
    /\ last.op = "add_event"
    /\ last.start_time < last.end_time
    /\ Len(Bucket(events, last.start_time)) >= 2
    /\ \E e \in Range(Bucket(events, last.start_time)) :
          /\ Interval(e) # <<last.start_time, last.end_time>>
          /\ Overlap(last.start_time, last.end_time, e.start_time, e.end_time)

\* C2: for every day, get_events_for_day(day) is sorted ascending by start
\* time, whatever the order of the insertions.
C2_Sorted ==
    \A d \in Days :
        LET s == get_events_for_day(events, d)
        IN  \A i \in 1..(Len(s) - 1) : s[i].start_time <= s[i + 1].start_time

\* The event accepted last starts before an event that was stored before it.
C2_Witness ==
    /\ last.op = "add_event"
    /\ last.ret
    /\ Len(Bucket(events, last.start_time)) >= 2
    /\ Interval(Bucket(events, last.start_time)[1]) = <<last.start_time, last.end_time>>

\* C3: add_event with start < end and no half-open overlap against the events
\* stored under the date of start returns success; afterwards that day holds
\* exactly its previous events plus the new one, and every other day is
\* unchanged.  The day key is the date of start, also when end is past midnight.
C3_AddSucceeds ==
    [][ ( /\ AddStep
          /\ last'.start_time < last'.end_time
          /\ \A e \in Range(Bucket(events, last'.start_time)) :
                ~Overlap(last'.start_time, last'.end_time, e.start_time, e.end_time) )
        => LET d   == date(last'.start_time)
               new == Event(last'.title, last'.start_time, last'.end_time)
           IN  /\ last'.ret = TRUE
               /\ DOMAIN events' = DOMAIN events \cup {d}
               /\ Range(events'[d]) = Range(get(events, d)) \cup {new}
               /\ Len(events'[d]) = Len(get(events, d)) + 1
               /\ \A o \in DOMAIN events' \ {d} :
                      o \in DOMAIN events /\ events'[o] = events[o]
      ]_vars

\* An accepted event that ends past midnight is filed under the date of its
\* start, and another day holds events too.
C3_Witness ==
    /\ last.op = "add_event"
    /\ last.ret
    /\ date(last.end_time) > date(last.start_time)
    /\ date(last.start_time) \in DOMAIN events
    /\ Event(last.title, last.start_time, last.end_time)
           \in Range(events[date(last.start_time)])
    /\ \E o \in DOMAIN events : o # date(last.start_time) /\ events[o] # <<>>

\* C4: add_event with start >= end is rejected and leaves the whole store
\* unchanged: the same day keys and the same sequence for every day.
C4_InvalidIntervalRejected ==
    [][ (AddStep /\ last'.start_time >= last'.end_time)
        => (last'.ret = FALSE /\ events' = events) ]_vars

\* A call with start > end was rejected on a store that holds events.
C4_Witness ==
    /\ last.op = "add_event"
    /\ last.start_time > last.end_time
    /\ last.ret = FALSE
    /\ events # <<>>

\* C5: add_event of [s1, e1) with s1 < e1 that overlaps an event [s2, e2)
\* stored under the date of s1 (s1 < e2 and e1 > s2) is rejected and leaves
\* the whole store unchanged: no day key is added, no sequence changes.
C5_OverlapRejected ==
    [][ ( /\ AddStep
          /\ last'.start_time < last'.end_time
          /\ \E e \in Range(Bucket(events, last'.start_time)) :
                Overlap(last'.start_time, last'.end_time, e.start_time, e.end_time) )
        => (last'.ret = FALSE /\ events' = events) ]_vars

\* A well-formed event was rejected: it overlaps a stored event that is not the
\* same interval.
C5_Witness ==
    /\ last.op = "add_event"
    /\ last.start_time < last.end_time
    /\ last.ret = FALSE
    /\ \E e \in Range(Bucket(events, last.start_time)) :
          /\ Interval(e) # <<last.start_time, last.end_time>>
          /\ Overlap(last.start_time, last.end_time, e.start_time, e.end_time)

\* The new interval [s, e) touches the stored event x at an endpoint.
Abuts(s, e, x) == s = x.end_time \/ e = x.start_time

\* C6 as stated: add_event of an event with start < end that exactly abuts an
\* event already stored for that day always succeeds.
C6_AbutAlwaysSucceeds ==
    [][ ( /\ AddStep
          /\ last'.start_time < last'.end_time
          /\ \E x \in Range(Bucket(events, last'.start_time)) :
                Abuts(last'.start_time, last'.end_time, x) )
        => last'.ret = TRUE ]_vars

\* C6 amended: add_event of an event with start < end that exactly abuts an
\* event already stored for that day succeeds whenever it overlaps none of the
\* other events stored for that day.
C6_AbutSucceeds ==
    [][ ( /\ AddStep
          /\ last'.start_time < last'.end_time
          /\ \E x \in Range(Bucket(events, last'.start_time)) :
                /\ Abuts(last'.start_time, last'.end_time, x)
                /\ \A y \in Range(Bucket(events, last'.start_time)) \ {x} :
                      ~Overlap(last'.start_time, last'.end_time,
                               y.start_time, y.end_time) )
        => /\ last'.ret = TRUE
           /\ Event(last'.title, last'.start_time, last'.end_time)
                  \in Range(events'[date(last'.start_time)]) ]_vars

\* The event accepted last touches another event of its day at an endpoint.
C6_Witness ==
    /\ last.op = "add_event"
    /\ last.ret
    /\ \E x \in Range(Bucket(events, last.start_time)) :
          /\ Interval(x) # <<last.start_time, last.end_time>>
          /\ Abuts(last.start_time, last.end_time, x)

\* The free gaps of a day in chronological order: before the first event,
\* between adjacent events, after the last event up to the latest instant of
\* the day.
Gaps(ev, day) ==
    LET s == get(ev, day)
        n == Len(s)
    IN  [i \in 1..(n + 1) |->
            [from |-> IF i = 1 THEN day * TicksPerDay ELSE s[i - 1].end_time,
             to   |-> IF i = n + 1 THEN day * TicksPerDay + TicksPerDay - 1
                                   ELSE s[i].start_time]]

\* The start of the chronologically first gap of length >= duration, if any.
FirstFit(ev, day, duration) ==
    LET g   == Gaps(ev, day)
        fit == {i \in DOMAIN g : g[i].to - g[i].from >= duration}
    IN  IF get(ev, day) = <<>> THEN <<day * TicksPerDay>>
        ELSE IF fit = {} THEN <<>>
        ELSE <<g[CHOOSE i \in fit : \A j \in fit : i <= j].from>>

FindCall == last.op = "find_next_available_slot"

\* C7: for every positive duration, find_next_available_slot returns day-start
\* on a day without events, otherwise the start of the chronologically first
\* gap whose length is >= duration, and None exactly when no gap is that long.
C7_FirstFit ==
    (FindCall /\ last.duration > 0)
        => last.ret = FirstFit(events, last.day, last.duration)

\* The search skipped the gap before the first event as too short and returned
\* the end of an event.
C7_Witness ==
    /\ FindCall
    /\ last.duration > 0
    /\ Len(get(events, last.day)) >= 2
    /\ last.ret # None
    /\ last.ret[1] > last.day * TicksPerDay

\* The intervals stored for a day, in order.
Intervals(ev, day) == [i \in 1..Len(get(ev, day)) |-> Interval(get(ev, day)[i])]

At(day, hh, mm) == day * TicksPerDay + Clock(hh, mm)

TwoSamples(day) == << <<At(day, 9, 0), At(day, 10, 0)>>,
                      <<At(day, 12, 30), At(day, 13, 30)>> >>

ThreeSamples(day) == TwoSamples(day) \o << <<At(day, 14, 0), At(day, 15, 30)>> >>

\* C8 as stated: with exactly [09:00,10:00) and [12:30,13:30) on a day the
\* search for 90 minutes returns 10:00, and with [14:00,15:30) added the search
\* for 30 minutes returns 10:00.
C8_ReturnsTenOClock ==
    FindCall =>
        /\ (Intervals(events, last.day) = TwoSamples(last.day)
                /\ last.duration = Minutes(90))
             => last.ret = <<At(last.day, 10, 0)>>
        /\ (Intervals(events, last.day) = ThreeSamples(last.day)
                /\ last.duration = Minutes(30))
             => last.ret = <<At(last.day, 10, 0)>>

\* C8 amended: in both scenarios the search returns 00:00 of that day, the
\* start of the nine-hour gap before the 09:00 event.
C8_ReturnsDayStart ==
    FindCall =>
        /\ (Intervals(events, last.day) = TwoSamples(last.day)
                /\ last.duration = Minutes(90))
             => last.ret = <<At(last.day, 0, 0)>>
        /\ (Intervals(events, last.day) = ThreeSamples(last.day)
                /\ last.duration = Minutes(30))
             => last.ret = <<At(last.day, 0, 0)>>

\* The three sample events are stored on a day and 30 minutes were asked of it.
C8_Witness ==
    /\ FindCall
    /\ Intervals(events, last.day) = ThreeSamples(last.day)
    /\ last.duration = Minutes(30)

\* The events of full with end_time > now, in the order of full.
EndingAfter(full, now) ==
    LET keep == {j \in 1..Len(full) : full[j].end_time > now}
    IN  [i \in 1..Cardinality(keep) |->
            full[CHOOSE j \in keep : Cardinality({m \in keep : m <= j}) = i]]

\* C9: get_remaining_events_for_day(D) equals get_events_for_day(D) when D is
\* not the day of now; otherwise it is the subsequence of get_events_for_day(D)
\* of the events with end > now.  The call does not change the store.
C9_Remaining ==
    [][ last'.op = "get_remaining_events_for_day"
        => /\ events' = events
           /\ last'.ret = IF last'.day # last'.now \div TicksPerDay
                          THEN get_events_for_day(events, last'.day)
                          ELSE EndingAfter(get_events_for_day(events, last'.day),
                                           last'.now) ]_vars

\* Asked on the day of now, with one event that ends exactly at now left out
\* and a later one returned.
C9_Witness ==
    /\ last.op = "get_remaining_events_for_day"
    /\ last.day = last.now \div TicksPerDay
    /\ \E e \in Range(get(events, last.day)) : e.end_time = last.now
    /\ Len(last.ret) = 1
    /\ Len(get(events, last.day)) = 2

\* C10: for a duration <= 0 find_next_available_slot returns neither a
\* timestamp nor None: the call is signalled as an invalid duration.
C10_InvalidDurationSignalled ==
    (FindCall /\ last.duration <= 0) => (last.ret # None /\ Len(last.ret) # 1)

====
